---- MODULE Spec2Model ----
(***************************************************************************)
(* A model of v2/ansible/playbook/task_include.py: the TaskInclude class.  *)
(*                                                                         *)
(*   SpecMunge    TaskInclude.munge, one iteration of its for-loop per     *)
(*                step, over every raw map of RawMaps and every order in   *)
(*                which ds.iteritems() can yield the keys.                 *)
(*   SpecVars     parent chains of directives with vars, and get_vars.     *)
(*   SpecCond     directives with a block, a role, a parent and a when,    *)
(*                and evaluate_conditional.                                *)
(*   SpecLoad     TaskInclude.load beside the constructor.                 *)
(*   SpecWire     serialize, and deserialize into a new directive.         *)
(*   SpecGraph    the constructor, _load_include, serialize and            *)
(*                deserialize (into new and into existing directives).     *)
(*   SpecCompile  _load_include over every file of FileContents, and       *)
(*                compile.                                                 *)
(*                                                                         *)
(* The TaskInclude objects live in the sequence tis; an object's identity  *)
(* is its index, and a reference to an object is that index.  Code of the  *)
(* repository outside this file (Base, Block, Role, Conditional, the       *)
(* helpers, the splitter) is modelled by what the class uses of it.        *)
(***************************************************************************)
EXTENDS Integers, Sequences, FiniteSets, TLC

\* ------------------------------------------------------------------ bounds

\* The longest include string (in characters) a raw map carries.
MaxInclude == 4

\* ------------------------------------------------------------- python values

\* The characters of an include string: a blank, a letter, the equals sign.
Chars == {" ", "f", "="}

\* A python value: a string (its characters in s), a dict (its items, as
\* <<key, value>> pairs, in d), a list (its elements in s), or None.
StrVal(s) == [type |-> "str", s |-> s, d |-> {}]
DictVal(d) == [type |-> "dict", s |-> <<>>, d |-> d]
ListVal(s) == [type |-> "list", s |-> s, d |-> {}]
NoneVal == [type |-> "none", s |-> <<>>, d |-> {}]

\* m[k] = v of a python dict m held as a function.
Put(m, k, v) == [x \in (DOMAIN m) \cup {k} |-> IF x = k THEN v ELSE m[x]]

\* The empty mapping.
EmptyMap == [x \in {} |-> NoneVal]

\* Every string over Chars of length at most n.
RECURSIVE StringsUpTo(_)
StringsUpTo(n) ==
    IF n = 0 THEN {<<>>}
    ELSE LET shorter == StringsUpTo(n - 1)
         IN  shorter \cup {Append(s, c) : s \in {t \in shorter : Len(t) = n - 1}, c \in Chars}

\* ------------------------------------------------- ansible.parsing.splitter

\* split_args: the blank-separated tokens of a string, in order.
RECURSIVE SplitFrom(_, _, _)
SplitFrom(s, i, cur) ==
    IF i > Len(s) THEN (IF cur = <<>> THEN <<>> ELSE <<cur>>)
    ELSE IF s[i] = " "
         THEN (IF cur = <<>> THEN <<>> ELSE <<cur>>) \o SplitFrom(s, i + 1, <<>>)
         ELSE SplitFrom(s, i + 1, Append(cur, s[i]))

split_args(s) == SplitFrom(s, 1, <<>>)

\* " ".join(items)
RECURSIVE Join(_)
Join(items) ==
    IF items = <<>> THEN <<>>
    ELSE IF Len(items) = 1 THEN items[1]
    ELSE items[1] \o <<" ">> \o Join(Tail(items))

\* The position of the first "=" of a token at index 2 or later, or 0.
RECURSIVE EqPos(_, _)
EqPos(tok, i) ==
    IF i > Len(tok) THEN 0
    ELSE IF tok[i] = "=" THEN i
    ELSE EqPos(tok, i + 1)

\* parse_kv: the key=value tokens of a string as a dict; a later token
\* replaces an earlier one with the same key.
RECURSIVE KvOfTokens(_, _)
KvOfTokens(toks, acc) ==
    IF toks = <<>> THEN acc
    ELSE LET tok == Head(toks)
             p   == EqPos(tok, 2)
         IN  IF p = 0 THEN KvOfTokens(Tail(toks), acc)
             ELSE LET key == SubSeq(tok, 1, p - 1)
                      val == SubSeq(tok, p + 1, Len(tok))
                  IN  KvOfTokens(Tail(toks),
                                 {e \in acc : e[1] # key} \cup {<<key, val>>})

parse_kv(s) == KvOfTokens(split_args(s), {})

\* ------------------------------------------------------------ the raw maps

\* A key is the sequence of its segments, so that "with_" can be taken out.
K_include   == <<"include">>
K_vars      == <<"vars">>
K_with_items == <<"with_", "items">>
K_with_dict == <<"with_", "dict">>
K_loop      == <<"loop">>
K_loop_args == <<"loop_args">>

\* lookup_loader: the registered lookup plugins.
lookup_loader == {<<"items">>, <<"dict">>}

\* k.replace("with_", "")
StripWith(k) == SelectSeq(k, LAMBDA seg : seg # "with_")

\* The values a raw map gives each key.
IncludeValues == {StrVal(s) : s \in StringsUpTo(MaxInclude)}
VarsValues    == {DictVal({}), DictVal({<<(<<"f">>), (<<"f">>)>>}), StrVal(<<"f", "=", "f">>)}
LoopValues    == {StrVal(<<"f">>)}
ArgsValues    == {ListVal(<<"f">>)}
WithValues    == {ListVal(<<"=">>)}

ValuesOf(k) ==
    IF k = K_include THEN IncludeValues
    ELSE IF k = K_vars THEN VarsValues
    ELSE IF k = K_loop THEN LoopValues
    ELSE IF k = K_loop_args THEN ArgsValues
    ELSE WithValues

RawKeys == {K_include, K_vars, K_with_items, K_with_dict, K_loop, K_loop_args}

\* Every map that gives each key of ks one of its values.
RECURSIVE MapsOver(_)
MapsOver(ks) ==
    IF ks = {} THEN {EmptyMap}
    ELSE LET k == CHOOSE x \in ks : TRUE
         IN  {Put(m, k, v) : m \in MapsOver(ks \ {k}), v \in ValuesOf(k)}

\* Every raw directive map: any subset of the keys, each with one of its values.
RawMaps == UNION {MapsOver(ks) : ks \in SUBSET RawKeys}

\* ------------------------------------------------------------------- state

VARIABLES
    ds,        \* munge: the raw map being normalized
    new_ds,    \* munge: the canonical map under construction
    todo,      \* munge: the keys ds.iteritems() has not yet yielded
    mstate,    \* munge: "iter", "returned" or "raised"
    merr,      \* munge: the exception raised ("none" while there is none)
    tis,       \* the TaskInclude objects, in order of creation; an object's
               \* identity is its index
    wire,      \* the record serialize returned and deserialize has yet to read
    files,     \* what loader.load_from_file returns for each path
    last       \* the last call made on the objects, with its arguments and result

mvars == <<ds, new_ds, todo, mstate, merr>>
gvars == <<tis, wire, files, last>>
vars == <<ds, new_ds, todo, mstate, merr, tis, wire, files, last>>

\* ------------------------------------------------------- TaskInclude.munge

\* The result of a step of munge: the canonical map and the exception, if any.
Ok(m) == [new_ds |-> m, err |-> "none"]
Raise(m, e) == [new_ds |-> m, err |-> e]

\* _munge_include
MungeInclude(d, m, k, v) ==
    LET items == split_args(v.s)
    IN  IF Len(items) = 0 THEN Raise(m, "AnsibleParserError")
        ELSE LET m1 == Put(m, K_include, StrVal(items[1]))
             IN  IF Len(items) > 1
                 THEN LET params == parse_kv(Join(Tail(items)))
                      IN  IF K_vars \in DOMAIN m1
                          THEN Raise(m1, "AnsibleParserError")
                          ELSE Ok(Put(m1, K_vars, DictVal(params)))
                 ELSE Ok(m1)

\* new_ds.get('loop') is not None
LoopRecorded(m) == K_loop \in DOMAIN m /\ m[K_loop].type # "none"

\* _munge_loop; AnsibleError is not a name of the module, so that raising it
\* is a NameError.
MungeLoop(d, m, k, v) ==
    LET loop_name == StripWith(k)
    IN  IF LoopRecorded(m) THEN Raise(m, "NameError")
        ELSE Ok(Put(Put(m, K_loop, StrVal(loop_name)), K_loop_args, v))

\* the else branch of munge's loop
MungeOther(d, m, k, v) ==
    IF k = K_vars /\ K_vars \in DOMAIN m THEN Raise(m, "AnsibleParserError")
    ELSE IF k = K_vars /\ v.type # "dict" THEN Raise(m, "AnsibleParserError")
    ELSE Ok(Put(m, k, v))

\* The branch munge takes for key k.
IsIncludeKey(k) == k = K_include
IsLoopKey(k) == ~IsIncludeKey(k) /\ StripWith(k) \in lookup_loader
IsOtherKey(k) == ~IsIncludeKey(k) /\ ~IsLoopKey(k)

\* One iteration of the loop body.
MungeKey(d, m, k) ==
    IF IsIncludeKey(k) THEN MungeInclude(d, m, k, d[k])
    ELSE IF IsLoopKey(k) THEN MungeLoop(d, m, k, d[k])
    ELSE MungeOther(d, m, k, d[k])

\* munge visiting the keys in the order given.
RECURSIVE MungeFrom(_, _, _)
MungeFrom(d, m, order) ==
    IF order = <<>> THEN Ok(m)
    ELSE LET r == MungeKey(d, m, Head(order))
         IN  IF r.err # "none" THEN r ELSE MungeFrom(d, r.new_ds, Tail(order))

munge(d, order) == MungeFrom(d, EmptyMap, order)

\* Every order in which the keys of a set can be visited.
RECURSIVE Orders(_)
Orders(ks) ==
    IF ks = {} THEN {<<>>}
    ELSE UNION {{<<k>> \o o : o \in Orders(ks \ {k})} : k \in ks}

MungeInit ==
    /\ ds \in RawMaps
    /\ new_ds = EmptyMap
    /\ todo = DOMAIN ds
    /\ mstate = "iter"
    /\ merr = "none"
    /\ tis = <<>>
    /\ wire = <<>>
    /\ files = <<>>
    /\ last = [op |-> "none"]

\* The loop body on the next key the iteration yields.
Visit(k, r) ==
    /\ mstate = "iter"
    /\ k \in todo
    /\ new_ds' = r.new_ds
    /\ todo' = todo \ {k}
    /\ merr' = r.err
    /\ mstate' = IF r.err = "none" THEN "iter" ELSE "raised"
    /\ UNCHANGED <<ds, gvars>>

VisitInclude == \E k \in todo : IsIncludeKey(k) /\ Visit(k, MungeInclude(ds, new_ds, k, ds[k]))

VisitLoop == \E k \in todo : IsLoopKey(k) /\ Visit(k, MungeLoop(ds, new_ds, k, ds[k]))

VisitOther == \E k \in todo : IsOtherKey(k) /\ Visit(k, MungeOther(ds, new_ds, k, ds[k]))

\* return new_ds
MungeReturn ==
    /\ mstate = "iter"
    /\ todo = {}
    /\ mstate' = "returned"
    /\ UNCHANGED <<ds, new_ds, todo, merr, gvars>>

MungeNext == VisitInclude \/ VisitLoop \/ VisitOther \/ MungeReturn

SpecMunge == MungeInit /\ [][MungeNext]_vars

\* Whether an include string carries a key=value parameter after its target.
HasParams(v) ==
    LET items == split_args(v.s)
    IN  Len(items) > 1 /\ parse_kv(Join(Tail(items))) # {}

\* The with_ keys of a raw map that name a registered loop strategy.
WithKeys(d) == {k \in DOMAIN d : Head(k) = "with_" /\ StripWith(k) \in lookup_loader}

\* C1: a raw map with an include string that carries parameters and with a
\* vars key fails with a directive error, whatever the visiting order and
\* the value of vars; no canonical map is returned.
C1_ParamsWithVarsFail ==
    (/\ mstate # "iter"
     /\ K_include \in DOMAIN ds
     /\ K_vars \in DOMAIN ds
     /\ HasParams(ds[K_include])) =>
        mstate = "raised" /\ merr = "AnsibleParserError"

\* C2: a raw map with two distinct with_ keys that name registered strategies
\* fails with a directive error, in either visiting order, and no canonical
\* map with one of the two loops is returned.
C2_DuplicateLoopFails ==
    (mstate # "iter" /\ Cardinality(WithKeys(ds)) >= 2) =>
        mstate = "raised" /\ merr = "AnsibleParserError"

\* The outcome of munge is that of every visiting order of the raw map.
OrderIndependent(d, st, m, e) ==
    st # "iter" =>
        \A o \in Orders(DOMAIN d) :
            LET r == munge(d, o)
            IN  IF st = "returned" THEN r.err = "none" /\ r.new_ds = m
                ELSE r.err = "AnsibleParserError" /\ e = "AnsibleParserError"

\* C7: the outcome of munge does not depend on the visiting order (two orders
\* both fail with a directive error or both return the same canonical map),
\* and no key of the canonical map is overwritten by a later key.
C7_OrderIrrelevant ==
    [][/\ OrderIndependent(ds', mstate', new_ds', merr')
       /\ \A k \in DOMAIN new_ds : k \in DOMAIN new_ds' /\ new_ds'[k] = new_ds[k]]_vars

\* C8: a canonical map munge returns has an include value that is not empty;
\* a raw map without an include key, or with an include string that holds no
\* token, fails.
C8_TargetNonEmpty ==
    /\ mstate = "returned" =>
          K_include \in DOMAIN new_ds /\ new_ds[K_include].s # <<>>
    /\ (/\ mstate # "iter"
        /\ (K_include \notin DOMAIN ds \/ split_args(ds[K_include].s) = <<>>)) =>
          mstate = "raised"

\* munge is not running.
MungeIdle ==
    /\ ds = EmptyMap
    /\ new_ds = EmptyMap
    /\ todo = {}
    /\ mstate = "idle"
    /\ merr = "none"

\* ---------------------------------------------------------- the object graph

\* An optional reference or value: <<>> is None, <<x>> is x.
None == <<>>
Some(x) == <<x>>

\* A Role, by what this class reads of it: cond is what its
\* evaluate_conditional returns in the variable context at hand.
Role(name, cond) == [role_name |-> name, cond |-> cond]

\* A Block, by what this class reads of it: cond is what its
\* evaluate_conditional returns, block its task entries.
Block(cond, entries, parent_block, task_include, role, use_handlers) ==
    [cond |-> cond, block |-> entries, parent_block |-> parent_block,
     task_include |-> task_include, role |-> role, use_handlers |-> use_handlers]

\* A block a playbook declares, outside of any include.
PlayBlock(cond) == Block(cond, <<>>, None, None, None, FALSE)

\* The field attributes of the class, as load_data and deserialize set them.
Attrs(include, vs, tags, when, loop, loop_args) ==
    [include |-> include, vars |-> vs, tags |-> tags, when |-> when,
     loop |-> loop, loop_args |-> loop_args]

\* The attributes' defaults.
DefaultAttrs == Attrs(None, {}, <<>>, <<>>, None, None)

\* TaskInclude.__init__
NewTaskInclude(block, role, task_include, use_handlers) ==
    [include |-> None, vars |-> {}, tags |-> <<>>, when |-> <<>>,
     loop |-> None, loop_args |-> None,
     block |-> block, role |-> role, task_include |-> task_include,
     use_handlers |-> use_handlers, task_blocks |-> <<>>]

\* Base.load_data and Base.deserialize: every field attribute takes the
\* value the data gives it.
SetAttrs(t, a) ==
    [t EXCEPT !.include = a.include, !.vars = a.vars, !.tags = a.tags,
              !.when = a.when, !.loop = a.loop, !.loop_args = a.loop_args]

\* Base.serialize: the field attributes of an object.
BaseSerialize(t) == Attrs(t.include, t.vars, t.tags, t.when, t.loop, t.loop_args)

\* What loader.load_from_file returns: a list of block definitions, or
\* something that is no list.
ListFile(defs) == [islist |-> TRUE, defs |-> defs]
NotAList == [islist |-> FALSE, defs |-> <<>>]

\* An entry of a block definition: a task, or a nested block of tasks.
TaskEntry(name) == [task |-> name, nested |-> <<>>]
NestedEntry(names) == [task |-> "", nested |-> names]

\* helpers.load_list_of_blocks: one Block per definition, in the file's order.
load_list_of_blocks(defs, parent_block, task_include, role, use_handlers) ==
    [k \in 1..Len(defs) |->
        Block(TRUE, defs[k], parent_block, Some(task_include), role, use_handlers)]

\* _load_include on the object self of arena ar
LoadIncludeOf(ar, self, data) ==
    IF ~data.islist THEN [err |-> "NameError", tis |-> ar]
    ELSE [err |-> "none",
          tis |-> [ar EXCEPT ![self].task_blocks =
                      load_list_of_blocks(data.defs, ar[self].block, self,
                                          ar[self].role, ar[self].use_handlers)]]

\* Block.compile: the tasks of a block, a nested block's where it stands.
RECURSIVE BlockCompile(_, _)
BlockCompile(entries, k) ==
    IF entries = <<>> THEN <<>>
    ELSE LET e == Head(entries)
             here == IF e.nested = <<>>
                     THEN <<[name |-> e.task, block |-> k]>>
                     ELSE [j \in 1..Len(e.nested) |-> [name |-> e.nested[j], block |-> k]]
         IN  here \o BlockCompile(Tail(entries), k)

\* helpers.compile_block_list: each block's compiled tasks, one block after
\* the other; a task carries the position of the block it belongs to.
RECURSIVE CompileFrom(_, _)
CompileFrom(blocks, k) ==
    IF k > Len(blocks) THEN <<>>
    ELSE BlockCompile(blocks[k].block, k) \o CompileFrom(blocks, k + 1)

compile_block_list(blocks) == CompileFrom(blocks, 1)

\* compile taking the blocks last to first.
compile_reversed(t) ==
    <<>> \o compile_block_list([k \in 1..Len(t.task_blocks) |->
                                   t.task_blocks[Len(t.task_blocks) + 1 - k]])

\* compile
compile(t) == <<>> \o compile_block_list(t.task_blocks)

\* dict.update: the items of d, those of e replacing them key by key.
Update(d, e) == {x \in d : \A y \in e : y[1] # x[1]} \cup e

\* get_vars with the two updates in the other order: the parent's entry wins.
RECURSIVE get_vars_parent_last(_, _)
get_vars_parent_last(ar, self) ==
    LET t == ar[self]
        inherited == IF t.task_include # None
                     THEN get_vars_parent_last(ar, t.task_include[1])
                     ELSE {}
    IN  Update(Update({}, t.vars), inherited)

\* get_vars
RECURSIVE get_vars(_, _)
get_vars(ar, self) ==
    LET t == ar[self]
        inherited == IF t.task_include # None
                     THEN Update({}, get_vars(ar, t.task_include[1]))
                     ELSE {}
    IN  Update(inherited, t.vars)

\* Conditional.evaluate_conditional: every expression of when holds (an
\* expression is held as its value in the variable context at hand).
WhenHolds(t) == \A j \in 1..Len(t.when) : t.when[j]

\* evaluate_conditional with "if" for "elif": the role is consulted after the
\* block.
RECURSIVE evaluate_conditional_role_too(_, _)
evaluate_conditional_role_too(ar, self) ==
    LET t == ar[self]
        up == IF t.task_include # None
              THEN evaluate_conditional_role_too(ar, t.task_include[1])
              ELSE [result |-> TRUE, trace |-> <<>>]
        blk == IF ~up.result \/ t.block = None THEN up
               ELSE [result |-> t.block[1].cond,
                     trace |-> Append(up.trace, <<"block", self>>)]
        rol == IF ~blk.result \/ t.role = None THEN blk
               ELSE [result |-> t.role[1].cond,
                     trace |-> Append(blk.trace, <<"role", self>>)]
    IN  IF ~rol.result THEN rol
        ELSE [result |-> WhenHolds(t), trace |-> Append(rol.trace, <<"when", self>>)]

\* evaluate_conditional: the result, and the links evaluated, in order.
RECURSIVE evaluate_conditional(_, _)
evaluate_conditional(ar, self) ==
    LET t == ar[self]
        up == IF t.task_include # None
              THEN evaluate_conditional(ar, t.task_include[1])
              ELSE [result |-> TRUE, trace |-> <<>>]
    IN  IF ~up.result THEN up
        ELSE IF t.block # None
        THEN IF ~t.block[1].cond
             THEN [result |-> FALSE, trace |-> Append(up.trace, <<"block", self>>)]
             ELSE [result |-> WhenHolds(t),
                   trace |-> up.trace \o << <<"block", self>>, <<"when", self>> >>]
        ELSE IF t.role # None
        THEN IF ~t.role[1].cond
             THEN [result |-> FALSE, trace |-> Append(up.trace, <<"role", self>>)]
             ELSE [result |-> WhenHolds(t),
                   trace |-> up.trace \o << <<"role", self>>, <<"when", self>> >>]
        ELSE [result |-> WhenHolds(t), trace |-> Append(up.trace, <<"when", self>>)]

\* Role.serialize and Role.deserialize
RoleSerialize(r) == [role_name |-> r.role_name, when |-> r.cond]
RoleDeserialize(d) == Role(d.role_name, d.when)

\* Block.serialize and Block.deserialize: a block's when and its role cross
\* the process boundary, its tasks and back-references do not.
BlockSerialize(b) ==
    [when |-> b.cond,
     role |-> IF b.role # None THEN Some(RoleSerialize(b.role[1])) ELSE None]
BlockDeserialize(d) ==
    Block(d.when, <<>>, None, None,
          IF d.role # None THEN Some(RoleDeserialize(d.role[1])) ELSE None, FALSE)

\* serialize with "elif" for "if", as set_loader has it: of the relations
\* that are set, only the first is written.
RECURSIVE serialize_elif(_, _)
serialize_elif(ar, self) ==
    LET t == ar[self]
    IN  [attrs |-> BaseSerialize(t),
         block |-> IF t.block # None THEN Some(BlockSerialize(t.block[1])) ELSE None,
         role |-> IF t.block = None /\ t.role # None
                  THEN Some(RoleSerialize(t.role[1])) ELSE None,
         task_include |-> IF t.block = None /\ t.role = None /\ t.task_include # None
                          THEN Some(serialize_elif(ar, t.task_include[1]))
                          ELSE None]

\* serialize: the attributes and, under the keys block, role and
\* task_include, the records of the relations that are set.
RECURSIVE serialize(_, _)
serialize(ar, self) ==
    LET t == ar[self]
    IN  [attrs |-> BaseSerialize(t),
         block |-> IF t.block # None THEN Some(BlockSerialize(t.block[1])) ELSE None,
         role |-> IF t.role # None THEN Some(RoleSerialize(t.role[1])) ELSE None,
         task_include |-> IF t.task_include # None
                          THEN Some(serialize(ar, t.task_include[1]))
                          ELSE None]

\* data.get(key) is truthy: the key is there, with a record that is not empty.
Truthy(opt) == opt # None /\ DOMAIN opt[1] # {}

\* deserialize that rebuilds the parent in the object itself and not in a
\* new one.
deserialize_in_place(ar, self, data) ==
    LET t0 == ar[self]
        t1 == IF Truthy(data.block)
              THEN [t0 EXCEPT !.block = Some(BlockDeserialize(data.block[1]))]
              ELSE t0
        t2 == IF Truthy(data.role)
              THEN [t1 EXCEPT !.role = Some(RoleDeserialize(data.role[1]))]
              ELSE t1
    IN  IF Truthy(data.task_include)
        THEN [ar EXCEPT ![self] = SetAttrs([t2 EXCEPT !.task_include = Some(self)],
                                           data.attrs)]
        ELSE [ar EXCEPT ![self] = SetAttrs(t2, data.attrs)]

\* deserialize on the object self of arena ar: the arena afterwards. The
\* parent is a new object, made after self.
RECURSIVE deserialize(_, _, _)
deserialize(ar, self, data) ==
    LET t0 == ar[self]
        t1 == IF Truthy(data.block)
              THEN [t0 EXCEPT !.block = Some(BlockDeserialize(data.block[1]))]
              ELSE t0
        t2 == IF Truthy(data.role)
              THEN [t1 EXCEPT !.role = Some(RoleDeserialize(data.role[1]))]
              ELSE t1
    IN  IF Truthy(data.task_include)
        THEN LET ti == Len(ar) + 1
                 made == Append(ar, NewTaskInclude(None, None, None, FALSE))
                 ar2 == deserialize(made, ti, data.task_include[1])
             IN  [ar2 EXCEPT ![self] = SetAttrs([t2 EXCEPT !.task_include = Some(ti)],
                                                data.attrs)]
        ELSE [ar EXCEPT ![self] = SetAttrs(t2, data.attrs)]

\* The number of objects on the parent chain of self, self included; fuel
\* bounds the walk.
RECURSIVE ChainLen(_, _, _)
ChainLen(ar, self, fuel) ==
    IF fuel = 0 THEN 0
    ELSE IF ar[self].task_include = None THEN 1
    ELSE 1 + ChainLen(ar, ar[self].task_include[1], fuel - 1)

Ids == 1..Len(tis)

\* None, or any object there is.
AnyParent == {None} \cup {Some(i) : i \in Ids}

\* ------------------------------------------------------------ the operations

\* TaskInclude(block, role, task_include, use_handlers).load_data(a): the
\* object is made, its attributes are set and, when there is an include
\* attribute, _load_include loads the file. An exception leaves no object.
Made(a, b, r, p, h) ==
    LET self == Len(tis) + 1
        ar == Append(tis, SetAttrs(NewTaskInclude(b, r, p, h), a))
    IN  IF a.include = None THEN [err |-> "none", tis |-> ar]
        ELSE LET res == LoadIncludeOf(ar, self, files[a.include[1]])
             IN  IF res.err # "none" THEN [err |-> res.err, tis |-> tis] ELSE res

Construct(a, b, r, p, h) ==
    LET res == Made(a, b, r, p, h)
    IN  /\ tis' = res.tis
        /\ last' = [op |-> "new", err |-> res.err]
        /\ UNCHANGED <<wire, files, mvars>>

\* The scope load hands to the constructor.
LoadScope(b, r, p, h) == [block |-> b, role |-> r, task_include |-> None, use_handlers |-> h]

\* TaskInclude.load
Load(a, b, r, p, h) ==
    LET sc == LoadScope(b, r, p, h)
        res == Made(a, sc.block, sc.role, sc.task_include, sc.use_handlers)
    IN  /\ tis' = res.tis
        /\ last' = [op |-> "load", id |-> Len(tis) + 1, err |-> res.err,
                    block |-> b, role |-> r, task_include |-> p, use_handlers |-> h]
        /\ UNCHANGED <<wire, files, mvars>>

\* _load_include(attr, path) called on an object there is
LoadInclude(self, path) ==
    LET res == LoadIncludeOf(tis, self, files[path])
    IN  /\ tis' = res.tis
        /\ last' = [op |-> "load_include", err |-> res.err]
        /\ UNCHANGED <<wire, files, mvars>>

Compile(self) ==
    /\ last' = [op |-> "compile", id |-> self, value |-> compile(tis[self])]
    /\ UNCHANGED <<tis, wire, files, mvars>>

GetVars(self) ==
    /\ last' = [op |-> "get_vars", id |-> self, value |-> get_vars(tis, self)]
    /\ UNCHANGED <<tis, wire, files, mvars>>

EvaluateConditional(self) ==
    /\ last' = [op |-> "evaluate_conditional", id |-> self,
                value |-> evaluate_conditional(tis, self)]
    /\ UNCHANGED <<tis, wire, files, mvars>>

\* What a directive is at the moment it is serialized: its target, vars, tags
\* and loop fields, which of its relations are set, and its chain's depth.
Snapshot(ar, self) ==
    [include |-> ar[self].include, vars |-> ar[self].vars, tags |-> ar[self].tags,
     loop |-> ar[self].loop, loop_args |-> ar[self].loop_args,
     has_block |-> ar[self].block # None, has_role |-> ar[self].role # None,
     has_parent |-> ar[self].task_include # None,
     depth |-> ChainLen(ar, self, Len(ar))]

\* serialize: the record goes on the wire, with what the object was then.
Serialize(self) ==
    /\ wire' = Some([data |-> serialize(tis, self), was |-> Snapshot(tis, self)])
    /\ last' = [op |-> "serialize"]
    /\ UNCHANGED <<tis, files, mvars>>

\* ti = TaskInclude(); ti.deserialize(data). The record is used up:
\* deserialize deletes the nested records from it as it reads them.
DeserializeNew(limit) ==
    /\ wire # None
    /\ Len(tis) + wire[1].was.depth <= limit
    /\ LET ti == Len(tis) + 1
       IN  /\ tis' = deserialize(Append(tis, NewTaskInclude(None, None, None, FALSE)),
                                 ti, wire[1].data)
           /\ last' = [op |-> "deserialize", id |-> ti, fresh |-> TRUE,
                       was |-> wire[1].was]
    /\ wire' = None
    /\ UNCHANGED <<files, mvars>>

\* deserialize called on an object there is
DeserializeInto(self, limit) ==
    /\ wire # None
    /\ Len(tis) + wire[1].was.depth - 1 <= limit
    /\ tis' = deserialize(tis, self, wire[1].data)
    /\ last' = [op |-> "deserialize", id |-> self, fresh |-> FALSE]
    /\ wire' = None
    /\ UNCHANGED <<files, mvars>>

\* The one path the directives include, and a file with no block in it.
TasksPath == "tasks.yml"
Paths == {TasksPath}
EmptyFile == ListFile(<<>>)

\* No object yet; the files are those of fs.
GraphInit(fs) ==
    /\ MungeIdle
    /\ tis = <<>>
    /\ wire = None
    /\ files \in [Paths -> fs]
    /\ last = [op |-> "none"]

\* ------------------------------------------------- SpecVars: variable scope

\* The longest parent chain built.
MaxChain == 3

VarsChoices == {{}, {<<"a", 1>>}, {<<"a", 2>>, <<"b", 3>>}, {<<"c", 4>>}}

VarsAttrs(vs) == Attrs(Some(TasksPath), vs, <<>>, <<>>, None, None)

ConstructV ==
    /\ Len(tis) < MaxChain
    /\ \E vs \in VarsChoices, p \in AnyParent :
          Construct(VarsAttrs(vs), None, None, p, FALSE)

GetVarsV == \E i \in Ids : GetVars(i)

VarsNext == ConstructV \/ GetVarsV

SpecVars == GraphInit({EmptyFile}) /\ [][VarsNext]_vars

\* The parent chain of an object, the object first and the root last.
RECURSIVE ChainOf(_, _, _)
ChainOf(ar, self, fuel) ==
    IF fuel = 0 THEN <<>>
    ELSE IF ar[self].task_include = None THEN <<self>>
    ELSE <<self>> \o ChainOf(ar, ar[self].task_include[1], fuel - 1)

Keys(d) == {x[1] : x \in d}

\* The entry for each key of the chain's vars that belongs to the object
\* nearest the leaf among those that have the key.
NearestWins(ar, self) ==
    LET c == ChainOf(ar, self, Len(ar))
    IN  {x \in UNION {ar[c[j]].vars : j \in 1..Len(c)} :
            \E j \in 1..Len(c) :
                /\ x \in ar[c[j]].vars
                /\ \A n \in 1..(j - 1) : x[1] \notin Keys(ar[c[n]].vars)}

\* The chain of the spec's example, root to leaf: {a:1}, {a:2,b:3}, {c:4}.
IsExampleChain(ar, self) ==
    LET c == ChainOf(ar, self, Len(ar))
    IN  /\ Len(c) = 3
        /\ ar[c[3]].vars = {<<"a", 1>>}
        /\ ar[c[2]].vars = {<<"a", 2>>, <<"b", 3>>}
        /\ ar[c[1]].vars = {<<"c", 4>>}

\* C3: get_vars returns the overlay of the vars of the parent chain from root
\* to leaf, the entry nearer the leaf winning a key collision, an object
\* without a parent giving its own vars; on the chain {a:1}, {a:2,b:3}, {c:4}
\* the result is {a:2, b:3, c:4}.
C3_GetVarsOverlay ==
    last.op = "get_vars" =>
        /\ last.value = NearestWins(tis, last.id)
        /\ tis[last.id].task_include = None => last.value = tis[last.id].vars
        /\ IsExampleChain(tis, last.id) =>
              last.value = {<<"a", 2>>, <<"b", 3>>, <<"c", 4>>}

C3_Witness ==
    /\ last.op = "get_vars"
    /\ IsExampleChain(tis, last.id)
    /\ last.value = {<<"a", 2>>, <<"b", 3>>, <<"c", 4>>}

\* -------------------------------------------- SpecCond: the conditional chain

\* The longest parent chain whose conditionals are evaluated.
MaxCondChain == 2

WhenChoices == {<<>>, <<TRUE>>, <<FALSE>>}
CondBlocks == {None, Some(PlayBlock(TRUE)), Some(PlayBlock(FALSE))}
CondRoles == {None, Some(Role("r", TRUE)), Some(Role("r", FALSE))}

CondAttrs(w) == Attrs(Some(TasksPath), {}, <<>>, w, None, None)

ConstructC ==
    /\ Len(tis) < MaxCondChain
    /\ \E w \in WhenChoices, b \in CondBlocks, r \in CondRoles, p \in AnyParent :
          Construct(CondAttrs(w), b, r, p, FALSE)

EvaluateConditionalC == \E i \in Ids : EvaluateConditional(i)

CondNext == ConstructC \/ EvaluateConditionalC

SpecCond == GraphInit({EmptyFile}) /\ [][CondNext]_vars

\* The links of one object, in order: its block's conditional, or with no
\* block its role's, then its own when.
OwnLinks(ar, j) ==
    (IF ar[j].block # None THEN << <<"block", j>> >>
     ELSE IF ar[j].role # None THEN << <<"role", j>> >>
     ELSE <<>>) \o << <<"when", j>> >>

\* The links of the objects c[n], ..., c[1] of a chain, the root's first.
RECURSIVE LinksFrom(_, _, _)
LinksFrom(ar, c, n) ==
    IF n = 0 THEN <<>> ELSE OwnLinks(ar, c[n]) \o LinksFrom(ar, c, n - 1)

AllLinks(ar, self) ==
    LET c == ChainOf(ar, self, Len(ar)) IN LinksFrom(ar, c, Len(c))

\* Whether a link holds.
LinkHolds(ar, l) ==
    IF l[1] = "block" THEN ar[l[2]].block[1].cond
    ELSE IF l[1] = "role" THEN ar[l[2]].role[1].cond
    ELSE \A j \in 1..Len(ar[l[2]].when) : ar[l[2]].when[j]

\* C4: evaluate_conditional evaluates the links in the order parent chain,
\* then block or (with no block) role, then own when; it stops at the first
\* link that is false and returns false, and returns true exactly when every
\* link holds.
C4_ShortCircuitOrder ==
    last.op = "evaluate_conditional" =>
        LET all == AllLinks(tis, last.id)
            bad == {n \in 1..Len(all) : ~LinkHolds(tis, all[n])}
            stop == IF bad = {} THEN Len(all)
                    ELSE CHOOSE n \in bad : \A m \in bad : n <= m
        IN  /\ last.value.trace = SubSeq(all, 1, stop)
            /\ last.value.result = (bad = {})

\* A parent link is false: neither the block, the role nor the when of the
\* object itself is evaluated.
C4_Witness ==
    /\ last.op = "evaluate_conditional"
    /\ tis[last.id].task_include # None
    /\ tis[last.id].block # None
    /\ tis[last.id].role # None
    /\ ~last.value.result
    /\ \A n \in 1..Len(last.value.trace) : last.value.trace[n][2] # last.id

\* ---------------------------------------------------- SpecLoad: TaskInclude.load

LoadVars == {{<<"a", 1>>}, {<<"b", 3>>}}
LoadBlocks == {None, Some(PlayBlock(TRUE))}
LoadRoles == {None, Some(Role("r", TRUE))}

ConstructL ==
    /\ Len(tis) < MaxChain
    /\ \E vs \in LoadVars, p \in AnyParent :
          Construct(VarsAttrs(vs), None, None, p, FALSE)

LoadL ==
    /\ Len(tis) < MaxChain
    /\ \E vs \in LoadVars, b \in LoadBlocks, r \in LoadRoles, p \in AnyParent, h \in BOOLEAN :
          Load(VarsAttrs(vs), b, r, p, h)

GetVarsL == \E i \in Ids : GetVars(i)

LoadNext == ConstructL \/ LoadL \/ GetVarsL

SpecLoad == GraphInit({EmptyFile}) /\ [][LoadNext]_vars

\* C10: the directive load returns has the block, the role, the handler flag
\* and the parent include it was called with, and its get_vars has the
\* parent's vars under every key it does not set itself.
C10_LoadKeepsScope ==
    (last.op = "load" /\ last.err = "none") =>
        LET t == tis[last.id]
        IN  /\ t.block = last.block
            /\ t.role = last.role
            /\ t.use_handlers = last.use_handlers
            /\ t.task_include = last.task_include
            /\ last.task_include # None =>
                  \A x \in get_vars(tis, last.task_include[1]) :
                      x[1] \notin Keys(t.vars) => x \in get_vars(tis, last.id)

\* ------------------------------------------- SpecWire: serialize, deserialize

\* The most objects made by the constructor, and the most objects in all.
MaxBuilt == 2
MaxObjects == 4

WireAttrs ==
    {DefaultAttrs,
     Attrs(Some(TasksPath), {<<"a", 1>>}, <<"t">>, <<TRUE>>, Some("items"), Some(<<"x">>))}
WireBlocks == {None, Some(PlayBlock(TRUE))}
WireRoles == {None, Some(Role("r", TRUE))}

ConstructW ==
    /\ Len(tis) < MaxBuilt
    /\ \E a \in WireAttrs, b \in WireBlocks, r \in WireRoles, p \in AnyParent :
          Construct(a, b, r, p, FALSE)

SerializeW == \E i \in Ids : Serialize(i)

DeserializeNewW == DeserializeNew(MaxObjects)

WireNext == ConstructW \/ SerializeW \/ DeserializeNewW

SpecWire == GraphInit({EmptyFile}) /\ [][WireNext]_vars

\* C5: deserialize(serialize(x)) into a new directive gives the target, vars,
\* tags and loop fields of x, the same of the three relations block, role and
\* parent include, and a parent chain as deep as that of x.
C5_RoundTrip ==
    (last.op = "deserialize" /\ last.fresh) =>
        LET t == tis[last.id]
            x == last.was
        IN  /\ t.include = x.include
            /\ t.vars = x.vars
            /\ t.tags = x.tags
            /\ t.loop = x.loop
            /\ t.loop_args = x.loop_args
            /\ (t.block # None) = x.has_block
            /\ (t.role # None) = x.has_role
            /\ (t.task_include # None) = x.has_parent
            /\ ChainLen(tis, last.id, Len(tis)) = x.depth

\* A directive with vars, a loop, a block, a role and a parent has made the
\* round trip.
C5_Witness ==
    /\ last.op = "deserialize"
    /\ last.fresh
    /\ last.was.depth >= 2
    /\ last.was.has_block
    /\ last.was.has_role
    /\ last.was.vars # {}
    /\ last.was.loop # None

\* --------------------------------- SpecGraph: building, loading, transferring

\* The most objects there are once records are deserialized.
MaxGraphObjects == 3

GraphAttrs == {VarsAttrs({})}
GraphFiles == {ListFile(<< <<TaskEntry("t1")>> >>)}

\* The blocks the includes have loaded.
ChildBlocks == UNION {{tis[i].task_blocks[k] : k \in 1..Len(tis[i].task_blocks)} : i \in Ids}

ConstructG ==
    /\ Len(tis) < MaxBuilt
    /\ \E a \in GraphAttrs, b \in {None} \cup {Some(x) : x \in ChildBlocks}, p \in AnyParent :
          Construct(a, b, None, p, FALSE)

LoadIncludeG == \E i \in Ids, path \in Paths : LoadInclude(i, path)

SerializeG == \E i \in Ids : Serialize(i)

DeserializeNewG == DeserializeNew(MaxGraphObjects)

DeserializeIntoG == \E i \in Ids : DeserializeInto(i, MaxGraphObjects)

GraphNext == ConstructG \/ LoadIncludeG \/ SerializeG \/ DeserializeNewG \/ DeserializeIntoG

SpecGraph == GraphInit(GraphFiles) /\ [][GraphNext]_vars

\* Whether the walk up the parent chain ends within fuel steps.
RECURSIVE Terminates(_, _, _)
Terminates(ar, self, fuel) ==
    IF ar[self].task_include = None THEN TRUE
    ELSE IF fuel = 0 THEN FALSE
    ELSE Terminates(ar, ar[self].task_include[1], fuel - 1)

\* C9: whatever was constructed, loaded and deserialized, the parent chain of
\* every directive ends at a directive without a parent, and the blocks a
\* directive has loaded refer to it.
C9_ParentChainAcyclic ==
    \A i \in Ids :
        /\ tis[i].task_include # None => tis[i].task_include[1] \in Ids \ {i}
        /\ Terminates(tis, i, Len(tis))
        /\ \A k \in 1..Len(tis[i].task_blocks) : tis[i].task_blocks[k].task_include = Some(i)

\* A directive that has loaded its blocks was deserialized into, and is in
\* the middle of a chain of three.
C9_Witness ==
    /\ last.op = "deserialize"
    /\ ~last.fresh
    /\ tis[last.id].task_blocks # <<>>
    /\ tis[last.id].task_include # None
    /\ \E i \in Ids : tis[i].task_include = Some(last.id)

\* ------------------------------------------------------ SpecCompile: compile

\* The most block definitions of a file, and the most entries of a block.
MaxBlocks == 3
MaxTasks == 2

\* Every sequence over S of length at most n.
RECURSIVE SeqsUpTo(_, _)
SeqsUpTo(S, n) ==
    IF n = 0 THEN {<<>>}
    ELSE LET shorter == SeqsUpTo(S, n - 1)
         IN  shorter \cup {Append(q, x) : q \in {y \in shorter : Len(y) = n - 1}, x \in S}

Entries == {TaskEntry("t1"), NestedEntry(<<"t2", "t3">>)}
BlockDefs == SeqsUpTo(Entries, MaxTasks)
FileContents == {ListFile(defs) : defs \in SeqsUpTo(BlockDefs, MaxBlocks)} \cup {NotAList}

ConstructK ==
    /\ tis = <<>>
    /\ \E b \in {None, Some(PlayBlock(TRUE))}, h \in BOOLEAN :
          Construct(VarsAttrs({}), b, None, None, h)

LoadIncludeK == \E i \in Ids : LoadInclude(i, tis[i].include[1])

CompileK == \E i \in Ids : Compile(i)

CompileNext == ConstructK \/ LoadIncludeK \/ CompileK

SpecCompile == GraphInit(FileContents) /\ [][CompileNext]_vars

\* The number of tasks a block definition declares.
RECURSIVE TaskCount(_)
TaskCount(def) ==
    IF def = <<>> THEN 0
    ELSE (IF Head(def).nested = <<>> THEN 1 ELSE Len(Head(def).nested))
         + TaskCount(Tail(def))

\* The number of tasks the first k definitions of a file declare.
RECURSIVE TasksBefore(_, _)
TasksBefore(defs, k) ==
    IF k = 0 THEN 0 ELSE TasksBefore(defs, k - 1) + TaskCount(defs[k])

\* The name of the m-th task a block definition declares.
RECURSIVE NthName(_, _)
NthName(def, m) ==
    LET e == Head(def)
        n == IF e.nested = <<>> THEN 1 ELSE Len(e.nested)
    IN  IF m > n THEN NthName(Tail(def), m - n)
        ELSE IF e.nested = <<>> THEN e.task ELSE e.nested[m]

\* C6: compile returns the tasks of the file's blocks, block after block in
\* the order of the file and each block's tasks in the order it declares
\* them; there are as many as the blocks declare together.
C6_CompileInFileOrder ==
    last.op = "compile" =>
        LET defs == files[tis[last.id].include[1]].defs
            out == last.value
        IN  /\ Len(out) = TasksBefore(defs, Len(defs))
            /\ \A k \in 1..Len(defs) : \A m \in 1..TaskCount(defs[k]) :
                  LET n == TasksBefore(defs, k - 1) + m
                  IN  n <= Len(out) /\ out[n] = [name |-> NthName(defs[k], m), block |-> k]

\* Three blocks, with tasks of their own and a nested block.
C6_Witness ==
    /\ last.op = "compile"
    /\ Len(tis[last.id].task_blocks) = 3
    /\ \A k \in 1..3 : tis[last.id].task_blocks[k].block # <<>>
    /\ \E k \in 1..3 : Len(tis[last.id].task_blocks[k].block) = 2
    /\ Len(last.value) > 3

====
